---- MODULE Spec2Model ----
(***************************************************************************)
(* The dual-language-server coordination layer of                          *)
(* src/src/solidlsp/language_servers/astro_language_server.py:             *)
(* AstroLanguageServer (the primary session plus the controller) and its   *)
(* companion AstroTypeScriptServer.                                        *)
(*                                                                         *)
(* Client threads issue capability calls; one controller thread runs       *)
(* start() and stop(); the two server processes act as the environment.    *)
(* Every handler is cut at the points where it calls into a session, so    *)
(* that Spec explores the interleavings of threads and SpecSeq the runs    *)
(* in which the operations execute one after another.                      *)
(***************************************************************************)
EXTENDS Integers, Sequences, FiniteSets, TLC

\* ---------------------------------------------------------------- bounds
NumAstro == 2
MaxOps == 2
MaxStarts == 2
MaxStops == 2
MaxResp == 3
MaxParts == 2
MaxDefs == 3
MaxLogs == 2

\* ------------------------------------------------------------- constants
Clients == {"c1", "c2"}
None == 0
TsFile == 0
AstroFiles == 1..NumAstro
Files == {TsFile} \cup AstroFiles
QueryTargets == {TsFile, 1}
Gens == 1..MaxStarts
\* The texts of window/logMessage notifications, character by character:
\* "Server Ready", "Initialized", "compiling", "already", "READY", "rea dy"
\* and a notification without text.
LogMessages ==
    { <<"S", "e", "r", "v", "e", "r", " ", "R", "e", "a", "d", "y">>,
      <<"I", "n", "i", "t", "i", "a", "l", "i", "z", "e", "d">>,
      <<"c", "o", "m", "p", "i", "l", "i", "n", "g">>,
      <<"a", "l", "r", "e", "a", "d", "y">>,
      <<"R", "E", "A", "D", "Y">>,
      <<"r", "e", "a", " ", "d", "y">>,
      <<>> }

VARIABLES
    \* AstroLanguageServer fields
    server_started, server_ready, ts_server, ts_server_started,
    astro_files_indexed, indexed_astro_file_uris,
    has_waited_for_cross_file_references,
    \* companion sessions, one per AstroTypeScriptServer object created
    tsGen, tsProc, tsReady, open_file_buffers,
    \* primary session
    primRunning, primInitialized, primary_open_file_buffers,
    \* client threads
    pc, target, idx, held, asked, outcome, opsLeft,
    \* controller thread
    ctlPc, ctlK, ctlOutcome, lifecycle, starts, stops, log,
    \* observation of what was sent and done
    unclosed, idxFailed, waits, ensureCalls, indexRuns, indexedOn,
    \* a references response and what findReferences makes of it
    response, result,
    \* the files of a repository and what _find_all_astro_files makes of them
    repo_files, astro_files,
    \* a directory name and what is_ignored_dirname answers
    dir_asked, dir_ignored,
    \* definition candidates and the preferred one
    definitions, preferred,
    \* the log notifications delivered to the layer, in order
    delivered

layerVars == <<server_started, server_ready, ts_server, ts_server_started,
               astro_files_indexed, indexed_astro_file_uris,
               has_waited_for_cross_file_references>>
tsVars == <<tsGen, tsProc, tsReady, open_file_buffers>>
primVars == <<primRunning, primInitialized, primary_open_file_buffers>>
clientVars == <<pc, target, idx, held, asked, outcome, opsLeft>>
ctlVars == <<ctlPc, ctlK, ctlOutcome, lifecycle, starts, stops, log>>
obsVars == <<ensureCalls, indexRuns, indexedOn>>
histVars == <<unclosed, idxFailed, waits, obsVars>>
refsVars == <<response, result>>
enumVars == <<repo_files, astro_files>>
dirVars == <<dir_asked, dir_ignored>>
defVars == <<definitions, preferred>>
vars == <<layerVars, tsVars, primVars, clientVars, ctlVars, histVars, refsVars,
          enumVars, dirVars, defVars, delivered>>

NoBuffers == [f \in {} |-> 0]

\* A thread that has no request in flight.
NoRequest == [to |-> None, method |-> "none", includeDeclaration |-> FALSE]

InitLayer ==
    /\ server_started = FALSE
    /\ server_ready = FALSE
    /\ ts_server = None
    /\ ts_server_started = FALSE
    /\ astro_files_indexed = FALSE
    /\ indexed_astro_file_uris = <<>>
    /\ has_waited_for_cross_file_references = FALSE
    /\ tsGen = 0
    /\ tsProc = [g \in Gens |-> "none"]
    /\ tsReady = [g \in Gens |-> FALSE]
    /\ open_file_buffers = [g \in Gens |-> NoBuffers]
    /\ primRunning = FALSE
    /\ primInitialized = FALSE
    /\ primary_open_file_buffers = NoBuffers
    /\ pc = [t \in Clients |-> "idle"]
    /\ target = [t \in Clients |-> TsFile]
    /\ idx = [t \in Clients |-> 0]
    /\ held = [t \in Clients |-> None]
    /\ asked = [t \in Clients |-> NoRequest]
    /\ outcome = "none"
    /\ opsLeft = MaxOps
    /\ ctlPc = "idle"
    /\ ctlK = 0
    /\ ctlOutcome = "none"
    /\ lifecycle = "Unstarted"
    /\ starts = 0
    /\ stops = 0
    /\ log = <<>>
    /\ unclosed = [g \in Gens |-> [f \in Files |-> 0]]
    /\ idxFailed = {}
    /\ waits = 0
    /\ ensureCalls = 0
    /\ indexRuns = 0
    /\ indexedOn = None


\* ------------------------------------------------- session handle (§4.1)
\* The open-file table of a session maps a URI to the reference count of its
\* buffer.  open_file is the scoped hold of the base session class.
BufEnter(buf, f) ==
    IF f \in DOMAIN buf THEN [buf EXCEPT ![f] = @ + 1] ELSE buf @@ (f :> 1)

BufRemove(buf, f) == [x \in (DOMAIN buf) \ {f} |-> buf[x]]

BufExit(buf, f) ==
    IF buf[f] - 1 = 0 THEN BufRemove(buf, f) ELSE [buf EXCEPT ![f] = @ - 1]

\* The companion process of session g is running / has exited on its own.
TsRunning(g) == tsProc[g] = "running"

TsCrashed == \E g \in Gens : tsProc[g] = "crashed"

\* Entering the scope: a new buffer is announced with an open notification.
\* unclosed[g][f] is the number of open notifications sent to session g for
\* f minus the number of close notifications sent to it for f.
open_file_enter(g, f) ==
    /\ open_file_buffers' = [open_file_buffers EXCEPT ![g] = BufEnter(@, f)]
    /\ unclosed' = IF f \notin DOMAIN open_file_buffers[g]
                   THEN [unclosed EXCEPT ![g][f] = @ + 1] ELSE unclosed

\* Leaving the scope, on every exit path: the count drops and the buffer is
\* closed and removed at zero.  A buffer that is no longer in the table
\* leaves the table as it is.
open_file_exit(g, f) ==
    LET buf == open_file_buffers[g] IN
    IF f \notin DOMAIN buf
    THEN UNCHANGED <<open_file_buffers, unclosed>>
    ELSE /\ open_file_buffers' = [open_file_buffers EXCEPT ![g] = BufExit(buf, f)]
         /\ unclosed' = IF buf[f] - 1 = 0
                        THEN [unclosed EXCEPT ![g][f] = @ - 1] ELSE unclosed

\* --------------------------------------------------------- cross-file indexer
\* _find_all_astro_files: the enumerated files, in enumeration order.
find_all_astro_files == [i \in 1..NumAstro |-> i]

\* A thread's position and locals: program counter, target file, loop index,
\* the session whose scope it holds, the session it has asked, and the
\* outcome of its last call.
Locals(t, p, tg, i, h, a) ==
    /\ pc' = [pc EXCEPT ![t] = p]
    /\ target' = [target EXCEPT ![t] = tg]
    /\ idx' = [idx EXCEPT ![t] = i]
    /\ held' = [held EXCEPT ![t] = h]
    /\ asked' = [asked EXCEPT ![t] = a]

Finish(t, res) ==
    /\ Locals(t, "idle", TsFile, 0, None, NoRequest)
    /\ outcome' = res

Step(t, p, tg, i, h, a) ==
    /\ Locals(t, p, tg, i, h, a)
    /\ UNCHANGED outcome

Goto(t, label) == Step(t, label, target[t], idx[t], held[t], asked[t])

\* request_references without the started check of lines 264-266.
request_references_unchecked(t, f) ==
    /\ pc[t] = "idle"
    /\ opsLeft > 0
    /\ opsLeft' = opsLeft - 1
    /\ Step(t, IF has_waited_for_cross_file_references
                THEN "ensure" ELSE "settle",
            f, 0, None, NoRequest)
    /\ UNCHANGED <<layerVars, tsVars, primVars, ctlVars, histVars>>

\* request_references, lines 263-270: the started check and the one-shot
\* settle-wait check.
request_references(t, f) ==
    /\ pc[t] = "idle"
    /\ opsLeft > 0
    /\ opsLeft' = opsLeft - 1
    /\ IF ~server_started
       THEN Finish(t, "NotStarted")
       ELSE Step(t, IF has_waited_for_cross_file_references
                    THEN "ensure" ELSE "settle",
                 f, 0, None, NoRequest)
    /\ UNCHANGED <<layerVars, tsVars, primVars, ctlVars, histVars>>

\* lines 269-270: the settle sleep, then the flag.
settle_wait(t) ==
    /\ pc[t] = "settle"
    /\ waits' = waits + 1
    /\ has_waited_for_cross_file_references' = TRUE
    /\ Goto(t, "ensure")
    /\ UNCHANGED <<server_started, server_ready, ts_server, ts_server_started,
                   astro_files_indexed, indexed_astro_file_uris>>
    /\ UNCHANGED <<tsVars, primVars, ctlVars, opsLeft>>
    /\ UNCHANGED <<unclosed, idxFailed, obsVars>>

\* _ensure_astro_files_indexed_on_ts_server without the flag check of
\* lines 202-203.
ensure_indexed_unguarded(t) ==
    /\ pc[t] = "ensure"
    /\ ensureCalls' = ensureCalls + 1
    /\ IF ts_server = None
       THEN /\ Finish(t, "SessionUnavailable")
            /\ UNCHANGED <<indexRuns, indexedOn>>
       ELSE /\ Step(t, "ix_open", target[t], 1, None, NoRequest)
            /\ indexRuns' = indexRuns + 1
            /\ indexedOn' = ts_server
    /\ UNCHANGED <<layerVars, tsVars, primVars, ctlVars, opsLeft>>
    /\ UNCHANGED <<unclosed, idxFailed, waits>>

\* _ensure_astro_files_indexed_on_ts_server with the flag of line 219 set
\* before the loop of lines 211-217 instead of after it.
ensure_indexed_flag_first(t) ==
    /\ pc[t] = "ensure"
    /\ ensureCalls' = ensureCalls + 1
    /\ IF astro_files_indexed
       THEN /\ Goto(t, "send")
            /\ UNCHANGED <<indexRuns, indexedOn, astro_files_indexed>>
       ELSE IF ts_server = None
       THEN /\ Finish(t, "SessionUnavailable")
            /\ UNCHANGED <<indexRuns, indexedOn, astro_files_indexed>>
       ELSE /\ Step(t, "ix_open", target[t], 1, None, NoRequest)
            /\ indexRuns' = indexRuns + 1
            /\ indexedOn' = ts_server
            /\ astro_files_indexed' = TRUE
    /\ UNCHANGED <<server_started, server_ready, ts_server, ts_server_started,
                   indexed_astro_file_uris, has_waited_for_cross_file_references>>
    /\ UNCHANGED <<tsVars, primVars, ctlVars, opsLeft>>
    /\ UNCHANGED <<unclosed, idxFailed, waits>>

\* _ensure_astro_files_indexed_on_ts_server, lines 202-209.
ensure_indexed_check(t) ==
    /\ pc[t] = "ensure"
    /\ ensureCalls' = ensureCalls + 1
    /\ IF astro_files_indexed
       THEN /\ Goto(t, "send")
            /\ UNCHANGED <<indexRuns, indexedOn>>
       ELSE IF ts_server = None
       THEN /\ Finish(t, "SessionUnavailable")
            /\ UNCHANGED <<indexRuns, indexedOn>>
       ELSE /\ Step(t, "ix_open", target[t], 1, None, NoRequest)
            /\ indexRuns' = indexRuns + 1
            /\ indexedOn' = ts_server
    /\ UNCHANGED <<layerVars, tsVars, primVars, ctlVars, opsLeft>>
    /\ UNCHANGED <<unclosed, idxFailed, waits>>

\* The loop of line 211 moves to the next enumerated file or ends.
IndexAdvance(t) ==
    IF idx[t] < Len(find_all_astro_files)
    THEN Step(t, "ix_open", target[t], idx[t] + 1, None, NoRequest)
    ELSE Step(t, "ix_done", target[t], 0, None, NoRequest)

\* The loop of lines 211-217 without the try/except: a failing open leaves
\* _ensure_astro_files_indexed_on_ts_server.
index_open_aborting(t) ==
    /\ pc[t] = "ix_open"
    /\ LET f == find_all_astro_files[idx[t]] IN
       \/ /\ ts_server # None
          /\ open_file_enter(ts_server, f)
          /\ Step(t, "ix_promote", target[t], idx[t], ts_server, NoRequest)
          /\ UNCHANGED idxFailed
       \/ /\ idxFailed' = idxFailed \cup {f}
          /\ Finish(t, "OtherError")
          /\ UNCHANGED <<open_file_buffers, unclosed>>
    /\ UNCHANGED <<layerVars, tsGen, tsProc, tsReady, primVars, ctlVars>>
    /\ UNCHANGED <<opsLeft, waits, obsVars>>

\* line 213, entering the scope for the next enumerated file.  The open can
\* fail (the file cannot be read, or the companion reference is gone): the
\* except clause of lines 216-217 skips the file.
index_open(t) ==
    /\ pc[t] = "ix_open"
    /\ LET f == find_all_astro_files[idx[t]] IN
       \/ /\ ts_server # None
          /\ open_file_enter(ts_server, f)
          /\ Step(t, "ix_promote", target[t], idx[t], ts_server, NoRequest)
          /\ UNCHANGED idxFailed
       \/ /\ idxFailed' = idxFailed \cup {f}
          /\ IndexAdvance(t)
          /\ UNCHANGED <<open_file_buffers, unclosed>>
    /\ UNCHANGED <<layerVars, tsGen, tsProc, tsReady, primVars, ctlVars>>
    /\ UNCHANGED <<opsLeft, waits, obsVars>>

\* lines 214-215 without the extra unit of line 214.
index_record_only(t) ==
    /\ pc[t] = "ix_promote"
    /\ indexed_astro_file_uris' =
          Append(indexed_astro_file_uris, find_all_astro_files[idx[t]])
    /\ Goto(t, "ix_exit")
    /\ UNCHANGED <<server_started, server_ready, ts_server, ts_server_started,
                   astro_files_indexed, has_waited_for_cross_file_references>>
    /\ UNCHANGED <<tsVars, primVars, ctlVars>>
    /\ UNCHANGED <<opsLeft, histVars>>

\* lines 214-215: the extra reference-count unit and the recorded URI.
index_promote(t) ==
    /\ pc[t] = "ix_promote"
    /\ LET f == find_all_astro_files[idx[t]]
           g == held[t] IN
       /\ open_file_buffers' =
              IF f \in DOMAIN open_file_buffers[g]
              THEN [open_file_buffers EXCEPT ![g][f] = @ + 1]
              ELSE open_file_buffers
       /\ indexed_astro_file_uris' = Append(indexed_astro_file_uris, f)
    /\ Goto(t, "ix_exit")
    /\ UNCHANGED <<server_started, server_ready, ts_server, ts_server_started,
                   astro_files_indexed, has_waited_for_cross_file_references>>
    /\ UNCHANGED <<tsGen, tsProc, tsReady, primVars, ctlVars>>
    /\ UNCHANGED <<opsLeft, histVars>>

\* leaving the scope of line 213.
index_exit(t) ==
    /\ pc[t] = "ix_exit"
    /\ open_file_exit(held[t], find_all_astro_files[idx[t]])
    /\ IndexAdvance(t)
    /\ UNCHANGED <<layerVars, tsGen, tsProc, tsReady, primVars, ctlVars>>
    /\ UNCHANGED <<opsLeft, idxFailed, waits, obsVars>>

\* lines 219-223: the index-built flag, then the indexing wait.
index_done(t) ==
    /\ pc[t] = "ix_done"
    /\ astro_files_indexed' = TRUE
    /\ Goto(t, "send")
    /\ UNCHANGED <<server_started, server_ready, ts_server, ts_server_started,
                   indexed_astro_file_uris, has_waited_for_cross_file_references>>
    /\ UNCHANGED <<tsVars, primVars, ctlVars, histVars, opsLeft>>

\* --------------------------------------------------------------- query router
\* _send_ts_references_request, lines 229-238: the companion check, then the
\* scoped hold on the target file.
send_ts_references_request(t) ==
    /\ pc[t] = "send"
    /\ IF ts_server = None
       THEN /\ Finish(t, "SessionUnavailable")
            /\ UNCHANGED <<open_file_buffers, unclosed>>
       ELSE /\ open_file_enter(ts_server, target[t])
            /\ Step(t, "ref_request", target[t], 0, ts_server, NoRequest)
    /\ UNCHANGED <<layerVars, tsGen, tsProc, tsReady, primVars, ctlVars>>
    /\ UNCHANGED <<opsLeft, idxFailed, waits, obsVars>>

\* request_definition, lines 276-283, and request_rename_symbol_edit, lines
\* 287-294: the started check, the companion check, then the scoped hold.
request_delegated(t, f) ==
    /\ pc[t] = "idle"
    /\ opsLeft > 0
    /\ opsLeft' = opsLeft - 1
    /\ IF ~server_started
       THEN /\ Finish(t, "NotStarted")
            /\ UNCHANGED <<open_file_buffers, unclosed>>
       ELSE IF ts_server = None
       THEN /\ Finish(t, "SessionUnavailable")
            /\ UNCHANGED <<open_file_buffers, unclosed>>
       ELSE /\ open_file_enter(ts_server, f)
            /\ Step(t, "request", f, 0, ts_server, NoRequest)
    /\ UNCHANGED <<layerVars, tsGen, tsProc, tsReady, primVars, ctlVars>>
    /\ UNCHANGED <<idxFailed, waits, obsVars>>

request_definition(t, f) == request_delegated(t, f)

request_rename_symbol_edit(t, f) == request_delegated(t, f)

\* The request of a thread inside its scope goes to the companion that
\* self._ts_server names now; with the reference gone the attribute access
\* raises and the scope is left at once.
SendInScope(t, label, req) ==
    /\ pc[t] = label
    /\ IF ts_server = None
       THEN /\ open_file_exit(held[t], target[t])
            /\ Finish(t, "OtherError")
       ELSE /\ Step(t, "await", target[t], 0, held[t], req)
            /\ UNCHANGED <<open_file_buffers, unclosed>>

\* lines 232-236 and 239: the references request, declarations included.
send_references_request(t) ==
    /\ SendInScope(t, "ref_request",
                   [to |-> ts_server, method |-> "references",
                    includeDeclaration |-> TRUE])
    /\ UNCHANGED <<layerVars, tsGen, tsProc, tsReady, primVars, ctlVars>>
    /\ UNCHANGED <<opsLeft, idxFailed, waits, obsVars>>

\* lines 284 and 295: the definition or rename request.
send_request(t) ==
    /\ SendInScope(t, "request",
                   [to |-> ts_server, method |-> "delegated",
                    includeDeclaration |-> FALSE])
    /\ UNCHANGED <<layerVars, tsGen, tsProc, tsReady, primVars, ctlVars>>
    /\ UNCHANGED <<opsLeft, idxFailed, waits, obsVars>>

\* The end of a call whose scope is not left when the request has failed.
query_return_leaking(t) ==
    /\ pc[t] = "await"
    /\ \E answered \in BOOLEAN :
         /\ Finish(t, IF target[t] \notin DOMAIN open_file_buffers[held[t]]
                      THEN "OtherError"
                      ELSE IF answered /\ TsRunning(asked[t].to)
                      THEN "ok" ELSE "RequestFailed")
         /\ IF answered /\ TsRunning(asked[t].to)
            THEN open_file_exit(held[t], target[t])
            ELSE UNCHANGED <<open_file_buffers, unclosed>>
    /\ UNCHANGED <<layerVars, tsGen, tsProc, tsReady, primVars, ctlVars>>
    /\ UNCHANGED <<opsLeft, idxFailed, waits, obsVars>>

\* the response (or the failure of the request) arrives and the scope of
\* lines 238, 283 and 294 is left.
query_return(t) ==
    /\ pc[t] = "await"
    /\ \E answered \in BOOLEAN :
         Finish(t, IF target[t] \notin DOMAIN open_file_buffers[held[t]]
                   THEN "OtherError"
                   ELSE IF answered /\ TsRunning(asked[t].to)
                   THEN "ok" ELSE "RequestFailed")
    /\ open_file_exit(held[t], target[t])
    /\ UNCHANGED <<layerVars, tsGen, tsProc, tsReady, primVars, ctlVars>>
    /\ UNCHANGED <<opsLeft, idxFailed, waits, obsVars>>

ClientStep(t) ==
    \/ \E f \in QueryTargets : request_references(t, f)
    \/ \E f \in QueryTargets : request_definition(t, f)
    \/ \E f \in QueryTargets : request_rename_symbol_edit(t, f)
    \/ settle_wait(t)
    \/ ensure_indexed_check(t)
    \/ index_open(t)
    \/ index_promote(t)
    \/ index_exit(t)
    \/ index_done(t)
    \/ send_ts_references_request(t)
    \/ send_references_request(t)
    \/ send_request(t)
    \/ query_return(t)

\* ------------------------------------------------------ changed orders
\* _start_server with the primary before the companion.
start_order_primary_first == <<"prim_launch", "ts_create">>

\* stop with the companion stopped before the release.
stop_order_companion_first == <<"ts_stop", "cl_check", "prim_stop">>

\* --------------------------------------------------- lifecycle controller
\* The stages of _start_server, lines 518 and 546-565, and of stop, lines
\* 593-595, each named by the label of its first step, in the order in which
\* the code runs them.
start_order == <<"ts_create", "prim_launch">>

stop_order == <<"cl_check", "ts_stop", "prim_stop">>

\* The label that follows stage p in order, or last after the final stage.
StageAfter(order, p, last) ==
    LET i == CHOOSE k \in 1..Len(order) : order[k] = p IN
    IF i < Len(order) THEN order[i + 1] ELSE last

\* An exception that leaves start(): the call has failed.
StartRaises ==
    /\ lifecycle' = "Failed"
    /\ ctlOutcome' = "raised"
    /\ ctlPc' = "idle"

\* start() of the base session class: marks the layer started and runs
\* _start_server.
start ==
    /\ ctlPc = "idle"
    /\ lifecycle \in {"Unstarted", "Stopped"}
    /\ starts < MaxStarts
    /\ starts' = starts + 1
    /\ server_started' = TRUE
    /\ lifecycle' = "Starting"
    /\ ctlOutcome' = "pending"
    /\ ctlPc' = start_order[1]
    /\ log' = <<>>
    /\ UNCHANGED <<server_ready, ts_server, ts_server_started, astro_files_indexed,
                   indexed_astro_file_uris, has_waited_for_cross_file_references>>
    /\ UNCHANGED <<tsVars, primVars, clientVars, histVars, ctlK, stops>>

\* _start_typescript_server, lines 458-465: the companion object.
create_typescript_server ==
    /\ ctlPc = "ts_create"
    /\ tsGen' = tsGen + 1
    /\ ts_server' = tsGen + 1
    /\ ctlPc' = "ts_start"
    /\ UNCHANGED <<server_started, server_ready, ts_server_started,
                   astro_files_indexed, indexed_astro_file_uris,
                   has_waited_for_cross_file_references>>
    /\ UNCHANGED <<tsProc, tsReady, open_file_buffers, primVars, clientVars,
                   histVars>>
    /\ UNCHANGED <<ctlK, ctlOutcome, lifecycle, starts, stops, log>>

\* lines 468 and 479-483: the companion's start(), and the except clause
\* that drops the reference and re-raises.
start_typescript_server ==
    /\ ctlPc = "ts_start"
    /\ \/ /\ tsProc' = [tsProc EXCEPT ![ts_server] = "running"]
          /\ log' = Append(log, "companion_start")
          /\ ctlPc' = "ts_wait"
          /\ UNCHANGED <<ts_server, ts_server_started, lifecycle, ctlOutcome>>
       \/ /\ ts_server' = None
          /\ ts_server_started' = FALSE
          /\ StartRaises
          /\ UNCHANGED <<tsProc, log>>
    /\ UNCHANGED <<server_started, server_ready, astro_files_indexed,
                   indexed_astro_file_uris, has_waited_for_cross_file_references>>
    /\ UNCHANGED <<tsGen, tsReady, open_file_buffers, primVars, clientVars,
                   histVars>>
    /\ UNCHANGED <<ctlK, starts, stops>>

\* The wait of lines 471-477 without the force-set of line 476.
await_typescript_ready_unforced ==
    /\ ctlPc = "ts_wait"
    /\ ts_server_started' = TRUE
    /\ log' = Append(log, IF tsReady[ts_server]
                          THEN "companion_ready" ELSE "companion_timeout")
    /\ ctlPc' = StageAfter(start_order, "ts_create", "start_done")
    /\ UNCHANGED <<server_started, server_ready, ts_server, astro_files_indexed,
                   indexed_astro_file_uris, has_waited_for_cross_file_references>>
    /\ UNCHANGED <<tsVars, primVars, clientVars>>
    /\ UNCHANGED <<ctlK, ctlOutcome, lifecycle, starts, stops, histVars>>

\* lines 471-477: the bounded wait for the companion's readiness signal; on
\* timeout the signal is force-set.
await_typescript_ready ==
    /\ ctlPc = "ts_wait"
    /\ tsReady' = [tsReady EXCEPT ![ts_server] = TRUE]
    /\ ts_server_started' = TRUE
    /\ log' = Append(log, IF tsReady[ts_server]
                          THEN "companion_ready" ELSE "companion_timeout")
    /\ ctlPc' = StageAfter(start_order, "ts_create", "start_done")
    /\ UNCHANGED <<server_started, server_ready, ts_server, astro_files_indexed,
                   indexed_astro_file_uris, has_waited_for_cross_file_references>>
    /\ UNCHANGED <<tsGen, tsProc, open_file_buffers, primVars, clientVars>>
    /\ UNCHANGED <<ctlK, ctlOutcome, lifecycle, starts, stops, histVars>>

\* _start_server, line 546: the primary process is launched.
launch_primary ==
    /\ ctlPc = "prim_launch"
    /\ \/ /\ primRunning' = TRUE
          /\ log' = Append(log, "primary_launch")
          /\ ctlPc' = "prim_init"
          /\ UNCHANGED <<lifecycle, ctlOutcome>>
       \/ /\ StartRaises
          /\ UNCHANGED <<primRunning, log>>
    /\ UNCHANGED <<layerVars, tsVars, primInitialized, clientVars, histVars>>
    /\ UNCHANGED primary_open_file_buffers
    /\ UNCHANGED <<ctlK, starts, stops>>

\* lines 547-557: the initialize request and response, then the initialized
\* notification.
initialize_primary ==
    /\ ctlPc = "prim_init"
    /\ \/ /\ primInitialized' = TRUE
          /\ log' = Append(log, "primary_handshake")
          /\ ctlPc' = "prim_wait"
          /\ UNCHANGED <<lifecycle, ctlOutcome>>
       \/ /\ StartRaises
          /\ UNCHANGED <<primInitialized, log>>
    /\ UNCHANGED <<layerVars, tsVars, primRunning, clientVars, histVars>>
    /\ UNCHANGED primary_open_file_buffers
    /\ UNCHANGED <<ctlK, starts, stops>>

\* The wait of lines 559-565 without the force-set of line 562.
await_primary_ready_unforced ==
    /\ ctlPc = "prim_wait"
    /\ log' = Append(log, IF server_ready THEN "primary_ready" ELSE "primary_timeout")
    /\ ctlPc' = "start_done"
    /\ UNCHANGED <<layerVars, tsVars, primVars, clientVars>>
    /\ UNCHANGED <<ctlK, ctlOutcome, lifecycle, starts, stops, histVars>>

\* lines 559-565: the bounded wait for the primary's readiness signal; on
\* timeout the signal is force-set.
await_primary_ready ==
    /\ ctlPc = "prim_wait"
    /\ server_ready' = TRUE
    /\ log' = Append(log, IF server_ready THEN "primary_ready" ELSE "primary_timeout")
    /\ ctlPc' = StageAfter(start_order, "prim_launch", "start_done")
    /\ UNCHANGED <<server_started, ts_server, ts_server_started, astro_files_indexed,
                   indexed_astro_file_uris, has_waited_for_cross_file_references>>
    /\ UNCHANGED <<tsVars, primVars, clientVars>>
    /\ UNCHANGED <<ctlK, ctlOutcome, lifecycle, starts, stops, histVars>>

\* _start_server has returned and start() returns to its caller.
start_return ==
    /\ ctlPc = "start_done"
    /\ lifecycle' = "Ready"
    /\ ctlOutcome' = "ok"
    /\ ctlPc' = "idle"
    /\ UNCHANGED <<layerVars, tsVars, primVars, clientVars, histVars>>
    /\ UNCHANGED <<ctlK, starts, stops, log>>

\* stop(), line 592: the call begins.
stop ==
    /\ ctlPc = "idle"
    /\ lifecycle # "Starting"
    /\ stops < MaxStops
    /\ stops' = stops + 1
    /\ lifecycle' = "Stopping"
    /\ ctlOutcome' = "pending"
    /\ ctlPc' = stop_order[1]
    /\ log' = <<>>
    /\ UNCHANGED <<layerVars, tsVars, primVars, clientVars, histVars, ctlK, starts>>

\* _cleanup_indexed_astro_files returns.
CleanupReturn ==
    /\ ctlPc' = StageAfter(stop_order, "cl_check", "stop_done")
    /\ log' = Append(log, "release")

CleanupAdvance ==
    IF ctlK < Len(indexed_astro_file_uris)
    THEN /\ ctlK' = ctlK + 1
         /\ ctlPc' = "cl_dec"
    ELSE /\ ctlPc' = "cl_clear"
         /\ UNCHANGED ctlK

\* _cleanup_indexed_astro_files, lines 486-489.
cleanup_check ==
    /\ ctlPc = "cl_check"
    /\ IF indexed_astro_file_uris = <<>> \/ ts_server = None
       THEN /\ CleanupReturn
            /\ UNCHANGED ctlK
       ELSE /\ ctlK' = 1
            /\ ctlPc' = "cl_dec"
            /\ UNCHANGED log
    /\ UNCHANGED <<layerVars, tsVars, primVars, clientVars, histVars>>
    /\ UNCHANGED <<ctlOutcome, lifecycle, starts, stops>>

\* The loop of lines 490-501 without the decrement of line 494.
cleanup_no_decrement ==
    /\ ctlPc = "cl_dec"
    /\ IF indexed_astro_file_uris[ctlK] \in DOMAIN open_file_buffers[ts_server]
       THEN /\ ctlPc' = "cl_close"
            /\ UNCHANGED ctlK
       ELSE CleanupAdvance
    /\ UNCHANGED <<layerVars, tsVars, primVars, clientVars, histVars>>
    /\ UNCHANGED <<ctlOutcome, lifecycle, starts, stops, log>>

\* lines 490-494: the recorded URI's buffer loses the index's unit.
cleanup_decrement ==
    /\ ctlPc = "cl_dec"
    /\ LET uri == indexed_astro_file_uris[ctlK] IN
       IF uri \in DOMAIN open_file_buffers[ts_server]
       THEN /\ open_file_buffers' =
                  [open_file_buffers EXCEPT ![ts_server][uri] = @ - 1]
            /\ ctlPc' = "cl_close"
            /\ UNCHANGED ctlK
       ELSE /\ CleanupAdvance
            /\ UNCHANGED open_file_buffers
    /\ UNCHANGED <<layerVars, tsGen, tsProc, tsReady, primVars, clientVars,
                   histVars>>
    /\ UNCHANGED <<ctlOutcome, lifecycle, starts, stops, log>>

\* lines 496-501 without the test of line 496: the close notification is
\* sent and the buffer removed whatever the count.
cleanup_close_always ==
    /\ ctlPc = "cl_close"
    /\ LET uri == indexed_astro_file_uris[ctlK]
           buf == open_file_buffers[ts_server] IN
       /\ unclosed' = [unclosed EXCEPT ![ts_server][uri] = @ - 1]
       /\ IF TsRunning(ts_server)
          THEN /\ open_file_buffers' =
                    [open_file_buffers EXCEPT ![ts_server] = BufRemove(buf, uri)]
               /\ UNCHANGED log
          ELSE /\ log' = Append(log, "close_error")
               /\ UNCHANGED open_file_buffers
    /\ CleanupAdvance
    /\ UNCHANGED <<layerVars, tsGen, tsProc, tsReady, primVars, clientVars>>
    /\ UNCHANGED <<ctlOutcome, lifecycle, starts, stops>>
    /\ UNCHANGED <<idxFailed, waits, obsVars>>

\* lines 496-501: at zero the close notification is sent and the buffer
\* removed.  Sending to a process that has exited raises: the except clause
\* of line 500 logs it and the loop goes on, the buffer still in the table.
cleanup_close ==
    /\ ctlPc = "cl_close"
    /\ LET uri == indexed_astro_file_uris[ctlK]
           buf == open_file_buffers[ts_server]
           zero == uri \notin DOMAIN buf \/ buf[uri] = 0 IN
       IF ~zero
       THEN UNCHANGED <<open_file_buffers, unclosed, log>>
       ELSE /\ unclosed' = [unclosed EXCEPT ![ts_server][uri] = @ - 1]
            /\ IF TsRunning(ts_server)
               THEN /\ open_file_buffers' =
                         [open_file_buffers EXCEPT ![ts_server] = BufRemove(buf, uri)]
                    /\ UNCHANGED log
               ELSE /\ log' = Append(log, "close_error")
                    /\ UNCHANGED open_file_buffers
    /\ CleanupAdvance
    /\ UNCHANGED <<layerVars, tsGen, tsProc, tsReady, primVars, clientVars>>
    /\ UNCHANGED <<ctlOutcome, lifecycle, starts, stops>>
    /\ UNCHANGED <<idxFailed, waits, obsVars>>

\* line 503: the recorded list is cleared.
cleanup_clear ==
    /\ ctlPc = "cl_clear"
    /\ indexed_astro_file_uris' = <<>>
    /\ CleanupReturn
    /\ UNCHANGED <<server_started, server_ready, ts_server, ts_server_started,
                   astro_files_indexed, has_waited_for_cross_file_references>>
    /\ UNCHANGED <<tsVars, primVars, clientVars, histVars>>
    /\ UNCHANGED <<ctlK, ctlOutcome, lifecycle, starts, stops>>

\* _stop_typescript_server without the except clause of lines 510-511: the
\* exception of the companion's stop() leaves stop().
stop_typescript_server_propagating ==
    /\ ctlPc = "ts_stop"
    /\ IF ts_server = None
       THEN /\ log' = Append(log, "companion_stop")
            /\ ctlPc' = "prim_stop"
            /\ UNCHANGED <<ts_server, ts_server_started, tsProc, ctlOutcome>>
       ELSE /\ \E throws \in BOOLEAN :
                 /\ tsProc' = IF throws \/ ~TsRunning(ts_server) THEN tsProc
                              ELSE [tsProc EXCEPT ![ts_server] = "stopped"]
                 /\ log' = IF throws
                           THEN Append(log, "companion_stop_error")
                           ELSE Append(log, "companion_stop")
                 /\ ctlPc' = IF throws THEN "idle" ELSE "prim_stop"
                 /\ ctlOutcome' = IF throws THEN "raised" ELSE ctlOutcome
            /\ ts_server' = None
            /\ ts_server_started' = FALSE
    /\ UNCHANGED <<server_started, server_ready, astro_files_indexed,
                   indexed_astro_file_uris, has_waited_for_cross_file_references>>
    /\ UNCHANGED <<tsGen, tsReady, open_file_buffers, primVars, clientVars,
                   histVars>>
    /\ UNCHANGED <<ctlK, lifecycle, starts, stops>>

\* _stop_typescript_server without the finally clause of lines 512-514: the
\* reference is kept.
stop_typescript_server_keeping_reference ==
    /\ ctlPc = "ts_stop"
    /\ IF ts_server = None
       THEN /\ log' = Append(log, "companion_stop")
            /\ UNCHANGED tsProc
       ELSE \E throws \in BOOLEAN :
               /\ tsProc' = IF throws \/ ~TsRunning(ts_server) THEN tsProc
                            ELSE [tsProc EXCEPT ![ts_server] = "stopped"]
               /\ log' = IF throws
                         THEN log \o <<"companion_stop_error", "companion_stop">>
                         ELSE Append(log, "companion_stop")
    /\ ctlPc' = StageAfter(stop_order, "ts_stop", "stop_done")
    /\ UNCHANGED <<layerVars, tsGen, tsReady, open_file_buffers, primVars,
                   clientVars, histVars>>
    /\ UNCHANGED <<ctlK, ctlOutcome, lifecycle, starts, stops>>

\* _stop_typescript_server, lines 506-514: the companion's stop() may throw;
\* the exception is logged and the reference dropped either way.
stop_typescript_server ==
    /\ ctlPc = "ts_stop"
    /\ IF ts_server = None
       THEN /\ log' = Append(log, "companion_stop")
            /\ UNCHANGED <<ts_server, ts_server_started, tsProc>>
       ELSE /\ \E throws \in BOOLEAN :
                 /\ tsProc' = IF throws \/ ~TsRunning(ts_server) THEN tsProc
                              ELSE [tsProc EXCEPT ![ts_server] = "stopped"]
                 /\ log' = IF throws
                           THEN log \o <<"companion_stop_error", "companion_stop">>
                           ELSE Append(log, "companion_stop")
            /\ ts_server' = None
            /\ ts_server_started' = FALSE
    /\ ctlPc' = StageAfter(stop_order, "ts_stop", "stop_done")
    /\ UNCHANGED <<server_started, server_ready, astro_files_indexed,
                   indexed_astro_file_uris, has_waited_for_cross_file_references>>
    /\ UNCHANGED <<tsGen, tsReady, open_file_buffers, primVars, clientVars,
                   histVars>>
    /\ UNCHANGED <<ctlK, ctlOutcome, lifecycle, starts, stops>>

\* line 595: stop() of the base session class ends the primary process.
stop_primary ==
    /\ ctlPc = "prim_stop"
    /\ primRunning' = FALSE
    /\ primInitialized' = FALSE
    /\ primary_open_file_buffers' = NoBuffers
    /\ log' = Append(log, "primary_stop")
    /\ ctlPc' = StageAfter(stop_order, "prim_stop", "stop_done")
    /\ UNCHANGED <<layerVars, tsVars, clientVars, histVars>>
    /\ UNCHANGED <<ctlK, ctlOutcome, lifecycle, starts, stops>>

\* stop() returns to its caller.
stop_return ==
    /\ ctlPc = "stop_done"
    /\ lifecycle' = "Stopped"
    /\ ctlOutcome' = "ok"
    /\ ctlPc' = "idle"
    /\ UNCHANGED <<layerVars, tsVars, primVars, clientVars, histVars>>
    /\ UNCHANGED <<ctlK, starts, stops, log>>

\* The steps of a start() or stop() that has begun.
CtlRun ==
    \/ create_typescript_server
    \/ start_typescript_server
    \/ await_typescript_ready
    \/ launch_primary
    \/ initialize_primary
    \/ await_primary_ready
    \/ start_return
    \/ cleanup_check
    \/ cleanup_decrement
    \/ cleanup_close
    \/ cleanup_clear
    \/ stop_typescript_server
    \/ stop_primary
    \/ stop_return

CtlStep == start \/ stop \/ CtlRun

\* ------------------------------------------------------------ environment
\* The companion reports that it is ready.
ts_ready_signal ==
    /\ ts_server # None
    /\ TsRunning(ts_server)
    /\ ~tsReady[ts_server]
    /\ tsReady' = [tsReady EXCEPT ![ts_server] = TRUE]
    /\ UNCHANGED <<layerVars, tsGen, tsProc, open_file_buffers, primVars,
                   clientVars, ctlVars, histVars>>

\* str.lower() on one character.
lower_char(c) ==
    CASE c = "S" -> "s"
      [] c = "R" -> "r"
      [] c = "I" -> "i"
      [] c = "E" -> "e"
      [] c = "A" -> "a"
      [] c = "D" -> "d"
      [] c = "Y" -> "y"
      [] OTHER -> c

\* str.lower().
lower(text) == [i \in 1..Len(text) |-> lower_char(text[i])]

\* word in text, on strings: word is a contiguous part of text.
contains(text, word) ==
    \E i \in 1..(Len(text) - Len(word) + 1) :
       SubSeq(text, i, i + Len(word) - 1) = word

\* line 533 without the lower-casing.
IsReadyText_case_sensitive(m) ==
    \/ contains(m, <<"i", "n", "i", "t", "i", "a", "l", "i", "z", "e", "d">>)
    \/ contains(m, <<"r", "e", "a", "d", "y">>)

\* lines 532-533: the message text, lower-cased, contains "initialized" or
\* "ready".
IsReadyText(m) ==
    \/ contains(lower(m), <<"i", "n", "i", "t", "i", "a", "l", "i", "z", "e", "d">>)
    \/ contains(lower(m), <<"r", "e", "a", "d", "y">>)

\* window_log_message, lines 531-537.
window_log_message(m) ==
    /\ primRunning
    /\ server_ready' = (server_ready \/ IsReadyText(m))
    /\ UNCHANGED <<server_started, ts_server, ts_server_started, astro_files_indexed,
                   indexed_astro_file_uris, has_waited_for_cross_file_references>>
    /\ UNCHANGED <<tsVars, primVars, clientVars, ctlVars, histVars>>

\* The companion process exits on its own.
ts_crash ==
    /\ ts_server # None
    /\ TsRunning(ts_server)
    /\ tsProc' = [tsProc EXCEPT ![ts_server] = "crashed"]
    /\ UNCHANGED <<layerVars, tsGen, tsReady, open_file_buffers, primVars,
                   clientVars, ctlVars, histVars>>

EnvStep ==
    \/ ts_ready_signal
    \/ \E m \in LogMessages : window_log_message(m)
    \/ ts_crash

\* ------------------------------------------------- the references filter
\* Paths are sequences of names and a name is a sequence of its parts, so
\* that a leading dot can be told; a URI is its path behind the scheme.
repository_root_path == << <<"repo">> >>

path_to_uri(path) == << <<"file:">> >> \o path

uri_to_path(uri) == Tail(uri)

\* Path.is_relative_to and Path.relative_to.
is_relative_to(path, root) ==
    /\ Len(path) >= Len(root)
    /\ SubSeq(path, 1, Len(root)) = root

relative_to(path, root) == SubSeq(path, Len(root) + 1, Len(path))

\* is_ignored_dirname of the base session class: dot-directories.
base_is_ignored_dirname(dirname) == Head(dirname) = "."

\* lines 164-169 without the "dist" entry.
is_ignored_dirname_without_dist(dirname) ==
    \/ base_is_ignored_dirname(dirname)
    \/ dirname \in {<<"node_modules">>, <<".", "astro">>}

\* is_ignored_dirname, lines 164-169.
is_ignored_dirname(dirname) ==
    \/ base_is_ignored_dirname(dirname)
    \/ dirname \in {<<"node_modules">>, <<"dist">>, <<".", "astro">>}

\* is_ignored_path of the base session class: a path below an ignored
\* directory is ignored.
is_ignored_path(rel) ==
    \E i \in 1..(Len(rel) - 1) : is_ignored_dirname(rel[i])

\* The loop of lines 241-260 without the ignore check of lines 250-252.
RECURSIVE filter_references_keep_ignored(_)
filter_references_keep_ignored(items) ==
    IF items = <<>> THEN <<>>
    ELSE LET item == Head(items)
             abs_path == uri_to_path(item.uri)
             rest == filter_references_keep_ignored(Tail(items)) IN
         IF ~is_relative_to(abs_path, repository_root_path)
         THEN rest
         ELSE << [uri |-> item.uri, range |-> item.range,
                  absolutePath |-> abs_path,
                  relativePath |-> relative_to(abs_path, repository_root_path)] >>
              \o rest

\* lines 241-260, the loop over the response: locations outside the
\* repository and ignored ones are skipped, the others get both paths.
RECURSIVE filter_references(_)
filter_references(items) ==
    IF items = <<>> THEN <<>>
    ELSE LET item == Head(items)
             abs_path == uri_to_path(item.uri)
             rest == filter_references(Tail(items)) IN
         IF ~is_relative_to(abs_path, repository_root_path)
         THEN rest
         ELSE LET rel_path == relative_to(abs_path, repository_root_path) IN
              IF is_ignored_path(rel_path)
              THEN rest
              ELSE << [uri |-> item.uri, range |-> item.range,
                       absolutePath |-> abs_path,
                       relativePath |-> rel_path] >> \o rest

\* The locations a companion may name in a response.
ResponseUris ==
    { path_to_uri(p) : p \in
        { << <<"repo">>, <<"src">>, <<"a", ".ts">> >>,
          << <<"repo">>, <<"node_modules">>, <<"b", ".ts">> >>,
          << <<"repo">>, <<".", "git">>, <<"c", ".ts">> >>,
          << <<"repo2">>, <<"d", ".ts">> >>,
          << <<"repo">> >>,
          << <<"lib">>, <<"repo">>, <<"e", ".ts">> >> } }

ResponseItems == { [uri |-> u, range |-> r] : u \in ResponseUris, r \in 1..2 }

Responses ==
    UNION { [1..n -> ResponseItems] : n \in 0..MaxResp }

\* line 239 to line 260: the response arrives and the result is built.
references_response ==
    /\ ~result.done
    /\ result' = [done |-> TRUE, locs |-> filter_references(response)]
    /\ UNCHANGED <<layerVars, tsVars, primVars, clientVars, ctlVars, histVars,
                   response, enumVars, dirVars, defVars, delivered>>

\* ------------------------------------------------- the file enumeration
\* The files a repository may hold, by relative path.
RepoPaths ==
    { << <<"src">>, <<"a", ".astro">> >>,
      << <<"src">>, <<"g", ".ts">> >>,
      << <<"node_modules">>, <<"pkg">>, <<"b", ".astro">> >>,
      << <<"dist">>, <<"c", ".astro">> >>,
      << <<"src">>, <<".", "astro">>, <<"d", ".astro">> >>,
      << <<".", "astro">>, <<"e", ".astro">> >>,
      << <<"node_modules", "_old">>, <<"f", ".astro">> >>,
      << <<".", "hidden", ".astro">> >> }

\* rglob("*.astro"), line 191: the file name ends in .astro.
matches_astro(rel) ==
    LET name == rel[Len(rel)] IN name[Len(name)] = ".astro"

\* line 194: "node_modules" not in relative_path, a test on the text of the
\* whole path, and not relative_path.startswith(".").
astro_file_kept(rel) ==
    /\ ~\E i \in 1..Len(rel) : \E j \in 1..Len(rel[i]) : rel[i][j] = "node_modules"
    /\ Head(Head(rel)) # "."

\* _find_all_astro_files, lines 187-199.
find_astro_files ==
    /\ ~astro_files.done
    /\ astro_files' =
          [done |-> TRUE,
           files |-> {rel \in repo_files : matches_astro(rel) /\ astro_file_kept(rel)}]
    /\ UNCHANGED <<layerVars, tsVars, primVars, clientVars, ctlVars, histVars,
                   refsVars, repo_files, dirVars, defVars, delivered>>

\* ------------------------------------------------- the ignore predicate
\* Directory names of up to MaxParts parts.
NameParts == {".", "node_modules", "dist", "astro", "src", "git", "_old"}

DirNames == UNION { [1..n -> NameParts] : n \in 1..MaxParts }

NoDirCall ==
    /\ dir_asked = <<"src">>
    /\ dir_ignored = [done |-> TRUE, value |-> FALSE]

\* A call of is_ignored_dirname, lines 163-169, and its return value.
ignored_dirname_call ==
    /\ ~dir_ignored.done
    /\ dir_ignored' = [done |-> TRUE, value |-> is_ignored_dirname(dir_asked)]
    /\ UNCHANGED <<layerVars, tsVars, primVars, clientVars, ctlVars, histVars,
                   refsVars, enumVars, dir_asked, defVars, delivered>>

\* ------------------------------------------------ the preferred definition
\* The locations a definition request may return, by relative path.
DefinitionPaths ==
    { << <<"src">>, <<"a", ".ts">> >>,
      << <<"node_modules">>, <<"pkg">>, <<"b", ".d", ".ts">> >>,
      << <<"src">>, <<"node_modules">>, <<"c", ".ts">> >>,
      << <<"node_modules", "_old">>, <<"d", ".ts">> >>,
      << <<"lib">>, <<"e", ".ts">> >> }

DefinitionLists ==
    UNION { [1..n -> [relativePath : DefinitionPaths]] : n \in 1..MaxDefs }

NoDefCall ==
    /\ definitions = <<>>
    /\ preferred = [done |-> TRUE, value |-> None]

\* A location lies inside a dependency directory.
in_node_modules(d) ==
    \E i \in 1..(Len(d.relativePath) - 1) : d.relativePath[i] = <<"node_modules">>

\* The policy that always takes the first candidate.
prefer_first_definition(defs) == defs[1]

\* prefer_non_node_modules_definition: the first candidate outside a
\* dependency directory, else the first candidate.
prefer_non_node_modules_definition(defs) ==
    IF \E i \in 1..Len(defs) : ~in_node_modules(defs[i])
    THEN defs[CHOOSE i \in 1..Len(defs) :
                 /\ ~in_node_modules(defs[i])
                 /\ \A j \in 1..(i - 1) : in_node_modules(defs[j])]
    ELSE defs[1]

\* _get_preferred_definition, lines 597-599.
get_preferred_definition ==
    /\ ~preferred.done
    /\ preferred' = [done |-> TRUE,
                     value |-> prefer_non_node_modules_definition(definitions)]
    /\ UNCHANGED <<layerVars, tsVars, primVars, clientVars, ctlVars, histVars,
                   refsVars, enumVars, dirVars, definitions, delivered>>

\* ---------------------------------------------------------- specifications
Init ==
    /\ InitLayer
    /\ response = <<>>
    /\ result = [done |-> TRUE, locs |-> <<>>]
    /\ repo_files = {}
    /\ astro_files = [done |-> TRUE, files |-> {}]
    /\ NoDirCall
    /\ NoDefCall
    /\ delivered = <<>>

\* One lifetime of the layer with its threads interleaved: capability calls
\* arrive before start(), after it has returned and while stop() runs, and
\* every step of a thread may fall between two steps of another.
Next ==
    /\ \/ \E t \in Clients :
             /\ lifecycle # "Starting"
             /\ ClientStep(t)
       \/ /\ starts = 0
          /\ start
       \/ /\ stops = 0
          /\ stop
       \/ CtlRun
       \/ ts_ready_signal
       \/ \E m \in LogMessages : window_log_message(m)
    /\ UNCHANGED <<refsVars, enumVars, dirVars, defVars, delivered>>

Spec == Init /\ [][Next]_vars

\* A thread is passive when it is between calls or waits for the response
\* to a request it has sent.
Passive(t) == pc[t] \in {"idle", "await"}

\* The operations one after another, over several lifetimes: a thread runs
\* only while every other thread is passive.
NextSeq ==
    /\ \/ \E t \in Clients :
             /\ ctlPc = "idle"
             /\ \A u \in Clients \ {t} : Passive(u)
             /\ ClientStep(t)
       \/ /\ \A u \in Clients : Passive(u)
          /\ CtlStep
       \/ EnvStep
    /\ UNCHANGED <<refsVars, enumVars, dirVars, defVars, delivered>>

SpecSeq == Init /\ [][NextSeq]_vars

\* The references filter on every response within the bounds.
InitRefs ==
    /\ InitLayer
    /\ response \in Responses
    /\ result = [done |-> FALSE, locs |-> <<>>]
    /\ repo_files = {}
    /\ astro_files = [done |-> TRUE, files |-> {}]
    /\ NoDirCall
    /\ NoDefCall
    /\ delivered = <<>>

NextRefs == references_response

SpecRefs == InitRefs /\ [][NextRefs]_vars

\* The file enumeration on every repository made of the paths above.
InitEnum ==
    /\ InitLayer
    /\ response = <<>>
    /\ result = [done |-> TRUE, locs |-> <<>>]
    /\ repo_files \in SUBSET RepoPaths
    /\ astro_files = [done |-> FALSE, files |-> {}]
    /\ NoDirCall
    /\ NoDefCall
    /\ delivered = <<>>

NextEnum == find_astro_files

SpecEnum == InitEnum /\ [][NextEnum]_vars

\* The ignore predicate on every directory name within the bounds.
InitDir ==
    /\ InitLayer
    /\ response = <<>>
    /\ result = [done |-> TRUE, locs |-> <<>>]
    /\ repo_files = {}
    /\ astro_files = [done |-> TRUE, files |-> {}]
    /\ dir_asked \in DirNames
    /\ dir_ignored = [done |-> FALSE, value |-> FALSE]
    /\ NoDefCall
    /\ delivered = <<>>

NextDir == ignored_dirname_call

SpecDir == InitDir /\ [][NextDir]_vars

\* The preference policy on every candidate list within the bounds.
InitDef ==
    /\ InitLayer
    /\ response = <<>>
    /\ result = [done |-> TRUE, locs |-> <<>>]
    /\ repo_files = {}
    /\ astro_files = [done |-> TRUE, files |-> {}]
    /\ NoDirCall
    /\ definitions \in DefinitionLists
    /\ preferred = [done |-> FALSE, value |-> None]
    /\ delivered = <<>>

NextDef == get_preferred_definition

SpecDef == InitDef /\ [][NextDef]_vars

\* The lifecycle without capability calls, with the log notifications that
\* reach the layer recorded in order.
NextLog ==
    /\ \/ /\ \/ start
             \/ stop
             \/ create_typescript_server
             \/ start_typescript_server
             \/ await_typescript_ready
             \/ launch_primary
             \/ initialize_primary
             \/ await_primary_ready
             \/ start_return
             \/ cleanup_check
             \/ stop_typescript_server
             \/ stop_primary
             \/ stop_return
             \/ ts_ready_signal
          /\ UNCHANGED delivered
       \/ \E m \in LogMessages :
             /\ Len(delivered) < MaxLogs
             /\ window_log_message(m)
             /\ delivered' = Append(delivered, m)
    /\ UNCHANGED <<refsVars, enumVars, dirVars, defVars>>

SpecLog == Init /\ [][NextLog]_vars

\* The operations one after another, with stop() called only on a layer
\* that start() has been called on.
NextRestop ==
    /\ NextSeq
    /\ ~(lifecycle = "Unstarted" /\ lifecycle' = "Stopping")

SpecRestop == Init /\ [][NextRestop]_vars

\* ------------------------------------------------------------- properties
Range(s) == {s[i] : i \in DOMAIN s}

Count(x, s) == Cardinality({i \in DOMAIN s : s[i] = x})

\* The position of the first x in s, 0 when there is none.
Pos(x, s) ==
    IF x \in Range(s)
    THEN CHOOSE i \in DOMAIN s : s[i] = x /\ \A j \in 1..(i - 1) : s[j] # x
    ELSE 0

\* The query scopes that hold file f on companion g.
Scopes(g, f) ==
    Cardinality({t \in Clients : /\ held[t] = g
                                 /\ target[t] = f
                                 /\ pc[t] \in {"request", "ref_request", "await"}})

\* The index has been built on the companion in use and is not being released.
IndexHeld ==
    /\ astro_files_indexed
    /\ ts_server # None
    /\ indexedOn = ts_server
    /\ ctlPc = "idle"

C1_Holds ==
    /\ indexRuns <= 1
    /\ \A f \in AstroFiles : Count(f, indexed_astro_file_uris) <= 1
    /\ IndexHeld =>
         \A f \in AstroFiles \ idxFailed :
            /\ Count(f, indexed_astro_file_uris) = 1
            /\ unclosed[ts_server][f] = 1
            /\ f \in DOMAIN open_file_buffers[ts_server]
            /\ open_file_buffers[ts_server][f] = 1 + Scopes(ts_server, f)

C1_NoOp ==
    \A t \in Clients :
       (astro_files_indexed /\ pc[t] = "ensure" /\ pc'[t] # "ensure") =>
          /\ pc'[t] = "send"
          /\ UNCHANGED <<layerVars, tsVars, unclosed, idxFailed, indexRuns>>

\* C1: with findReferences called several times one after another, the
\* indexing loop runs at most once; every enumerated file that could be
\* opened is then open exactly once on the companion, carries exactly one
\* index unit on top of the query scopes that hold it, and is recorded
\* exactly once; an ensureIndexed that finds the flag set changes nothing.
C1_IdempotentIndexing == []C1_Holds /\ [][C1_NoOp]_vars

C1_Witness ==
    /\ IndexHeld
    /\ ensureCalls >= 2
    /\ idxFailed = {}
    /\ Len(indexed_astro_file_uris) = NumAstro
    /\ \A f \in AstroFiles : unclosed[ts_server][f] = 1

\* Every scope has been left and the release of a stop() has run.
Drained ==
    /\ \A t \in Clients : pc[t] = "idle"
    /\ lifecycle \in {"Stopping", "Stopped"}
    /\ "release" \in Range(log)

C3_NotStartedNoEffect ==
    [][(opsLeft' # opsLeft /\ ~server_started) =>
          /\ outcome' = "NotStarted"
          /\ pc' = pc
          /\ UNCHANGED <<layerVars, tsVars, primVars, histVars>>]_vars

C3_Witness ==
    /\ outcome = "NotStarted"
    /\ ~server_started
    /\ opsLeft < MaxOps

\* A location lies inside the project root, and is kept by findReferences.
InsideRoot(item) ==
    LET path == uri_to_path(item.uri) IN
    \E n \in 0..Len(path) :
       path = repository_root_path \o SubSeq(path, n + 1, Len(path))

Kept(item) ==
    /\ InsideRoot(item)
    /\ ~is_ignored_path(relative_to(uri_to_path(item.uri), repository_root_path))

\* C4: findReferences returns exactly the locations of the response that lie
\* inside the project root and are not ignored, in the order of the response,
\* each with its absolute and its relative path attached.
C4_ReferencesFiltered ==
    result.done =>
       LET kept == SelectSeq(response, Kept) IN
       /\ Len(result.locs) = Len(kept)
       /\ \A i \in 1..Len(kept) :
             /\ result.locs[i].uri = kept[i].uri
             /\ result.locs[i].range = kept[i].range
             /\ path_to_uri(result.locs[i].absolutePath) = kept[i].uri
             /\ repository_root_path \o result.locs[i].relativePath
                   = result.locs[i].absolutePath

C4_Witness ==
    /\ result.done
    /\ Len(response) >= 3
    /\ Len(result.locs) = 2
    /\ \E i \in 1..Len(response) : ~InsideRoot(response[i])
    /\ result.locs[1].uri # result.locs[2].uri

\* C5: a stop() that has begun always runs to its end: when release fails
\* to close a file or the companion's stop() throws, the later steps still
\* run, the primary process is stopped, and stop() returns without raising.
C5_StopTotalEffort ==
    /\ lifecycle = "Stopping" => ctlPc # "idle"
    /\ lifecycle = "Stopped" =>
          /\ ~primRunning
          /\ ts_server = None
          /\ ctlOutcome = "ok"
          /\ {"release", "companion_stop", "primary_stop"} \subseteq Range(log)

C5_Witness ==
    /\ lifecycle = "Stopped"
    /\ "close_error" \in Range(log)
    /\ "companion_stop_error" \in Range(log)

C6_Order ==
    lifecycle = "Stopped" =>
       /\ 0 < Pos("release", log)
       /\ Pos("release", log) < Pos("companion_stop", log)
       /\ Pos("companion_stop", log) < Pos("primary_stop", log)

C6_Steps ==
    /\ \A g \in Gens :
          (tsProc[g] = "running" /\ tsProc'[g] = "stopped") =>
             /\ indexed_astro_file_uris = <<>>
             /\ "release" \in Range(log)
             /\ \A f \in DOMAIN open_file_buffers[g] :
                   open_file_buffers[g][f] = Scopes(g, f)
    /\ (ctlPc = "prim_stop" /\ ctlPc' # "prim_stop") =>
          /\ ts_server = None
          /\ "companion_stop" \in Range(log)

\* C6: stop() runs release, then the companion's stop, then the primary's:
\* the companion is stopped only with the recorded list empty and no index
\* unit left on its buffers, and the primary only after the companion.
C6_StopOrder == []C6_Order /\ [][C6_Steps]_vars

C6_Witness ==
    /\ lifecycle = "Stopped"
    /\ indexRuns = 1
    /\ \E g \in Gens : tsProc[g] = "stopped"
    /\ "primary_stop" \in Range(log)

C8_Ready ==
    /\ lifecycle = "Ready" =>
          /\ ctlOutcome = "ok"
          /\ server_ready
          /\ ts_server # None
          /\ tsReady[ts_server]
    /\ ctlPc = "ts_wait" => ENABLED await_typescript_ready
    /\ ctlPc = "prim_wait" => ENABLED await_primary_ready

C8_WaitsDoNotRaise ==
    (ctlPc \in {"ts_wait", "prim_wait"} /\ ctlPc' # ctlPc) =>
       /\ lifecycle' # "Failed"
       /\ ctlOutcome' # "raised"

\* C8: a readiness wait can always end, signal or no signal, and never
\* raises; when start() has returned both the companion's and the primary's
\* readiness signal are in the fired state.
C8_ReadinessTimeouts == []C8_Ready /\ [][C8_WaitsDoNotRaise]_vars

C8_Witness ==
    /\ lifecycle = "Ready"
    /\ "companion_timeout" \in Range(log)
    /\ "primary_timeout" \in Range(log)

\* C9: when start() has failed no companion process that was launched is
\* left running.
C9_NoCompanionLeftRunning ==
    lifecycle = "Failed" => \A g \in Gens : tsProc[g] # "running"

\* C10: with first findReferences calls running concurrently the indexing
\* loop runs once and no file is recorded twice.
C10_IndexOnceConcurrently ==
    /\ indexRuns <= 1
    /\ \A f \in AstroFiles : Count(f, indexed_astro_file_uris) <= 1

\* C11: the first-query settle wait is performed at most once in a lifetime
\* of the layer, also when several threads issue their first findReferences
\* concurrently.
C11_SettleWaitOnce == waits <= 1

\* C12: on every session and URI the open and close notifications alternate,
\* whatever the interleaving of promotion, query scopes and release: never a
\* second open without a close in between, never a second close for one open.
C12_NotificationsAlternate ==
    \A g \in Gens, f \in Files : unclosed[g][f] \in {0, 1}

\* The reference count of f on session g, 0 without a buffer.
Holds(g, f) ==
    IF f \in DOMAIN open_file_buffers[g] THEN open_file_buffers[g][f] ELSE 0

Indexing(t) == pc[t] \in {"ix_open", "ix_promote", "ix_exit", "ix_done"}

C13_Holds ==
    IndexHeld =>
       \A f \in AstroFiles :
          IF f \in idxFailed
          THEN /\ Count(f, indexed_astro_file_uris) = 0
               /\ Holds(ts_server, f) = Scopes(ts_server, f)
          ELSE /\ Count(f, indexed_astro_file_uris) = 1
               /\ Holds(ts_server, f) = 1 + Scopes(ts_server, f)

C13_Steps ==
    \A t \in Clients :
       (Indexing(t) /\ <<pc[t], idx[t]>>' # <<pc[t], idx[t]>>) =>
          /\ outcome' = outcome
          /\ Indexing(t)' \/ pc'[t] = "send"
          /\ pc[t] = "ix_done" => astro_files_indexed'

\* C13: a file whose open fails does not end ensureIndexed: the loop goes on
\* to the other files, which are opened, promoted and recorded, and sets the
\* index-built flag; a file whose open failed is not recorded and carries no
\* index unit on the companion.
C13_PartialFailureTolerated == []C13_Holds /\ [][C13_Steps]_vars

C13_Witness ==
    /\ IndexHeld
    /\ \E f \in idxFailed, h \in AstroFiles \ idxFailed :
          /\ f < h
          /\ Count(h, indexed_astro_file_uris) = 1

\* The release of a stop() has run on the session the index was built on.
Released ==
    /\ lifecycle \in {"Stopping", "Stopped"}
    /\ "release" \in Range(log)
    /\ indexedOn # None

\* C14: when release has run the recorded list is empty and every enumerated
\* file has lost exactly the index's unit: a file still held by a query
\* scope keeps its buffer, with the scopes' units, and stays open; a file
\* whose count reached zero has been sent its close notification and, the
\* companion process being alive, has left the table.
C14_ReleaseLowersByOne ==
    Released =>
       /\ indexed_astro_file_uris = <<>>
       /\ \A f \in AstroFiles :
             /\ Holds(indexedOn, f) = Scopes(indexedOn, f)
             /\ Scopes(indexedOn, f) > 0 =>
                   /\ f \in DOMAIN open_file_buffers[indexedOn]
                   /\ unclosed[indexedOn][f] = 1
             /\ Scopes(indexedOn, f) = 0 =>
                   /\ unclosed[indexedOn][f] = 0
                   /\ tsProc[indexedOn] # "crashed" =>
                         f \notin DOMAIN open_file_buffers[indexedOn]

C14_Witness ==
    /\ Released
    /\ idxFailed = {}
    /\ \E f \in AstroFiles :
          /\ Scopes(indexedOn, f) > 0
          /\ Holds(indexedOn, f) = 1
    /\ \E f \in AstroFiles :
          /\ Scopes(indexedOn, f) = 0
          /\ f \notin DOMAIN open_file_buffers[indexedOn]

C15_Holds ==
    IndexHeld =>
       \A i \in DOMAIN indexed_astro_file_uris :
          /\ Holds(ts_server, indexed_astro_file_uris[i]) >= 1
          /\ unclosed[ts_server][indexed_astro_file_uris[i]] = 1

C15_Steps ==
    (IndexHeld /\ IndexHeld') =>
       \A i \in DOMAIN indexed_astro_file_uris :
          /\ indexed_astro_file_uris[i] \in Range(indexed_astro_file_uris')
          /\ unclosed'[ts_server][indexed_astro_file_uris[i]]
                = unclosed[ts_server][indexed_astro_file_uris[i]]

\* C15: from the end of ensureIndexed until stop() begins its release, every
\* recorded URI has its buffer in the companion's table with a count of at
\* least 1 and is open; no step in between sends a notification for it or
\* drops it from the list, whatever query scopes are entered and left.
C15_RecordedStaysOpen == []C15_Holds /\ [][C15_Steps]_vars

C15_Witness ==
    /\ IndexHeld
    /\ opsLeft = 0
    /\ \E t \in Clients :
          /\ pc[t] = "await"
          /\ held[t] = ts_server
          /\ target[t] \in Range(indexed_astro_file_uris)
          /\ Holds(ts_server, target[t]) >= 2

InIgnoredDirectory(rel) ==
    \E i \in 1..(Len(rel) - 1) :
       rel[i] \in {<<"node_modules">>, <<"dist">>, <<".", "astro">>}

\* C16: the files ensureIndexed enumerates are exactly the .astro files of
\* the repository that are not inside a dependency, build-output or
\* tool-cache directory at any depth and whose relative path does not start
\* with a dot.
C16_EnumeratedFiles ==
    astro_files.done =>
       astro_files.files =
          {rel \in repo_files : /\ matches_astro(rel)
                                /\ ~InIgnoredDirectory(rel)
                                /\ Head(Head(rel)) # "."}

C17_Steps ==
    \A t \in Clients :
       /\ (pc[t] = "settle" /\ pc'[t] # "settle") => ts_server # None
       /\ (outcome' = "SessionUnavailable" /\ (opsLeft' # opsLeft \/ pc'[t] # pc[t])) =>
             UNCHANGED <<layerVars, tsVars, primVars, unclosed, idxFailed, waits>>

\* C17: with the layer started and the companion absent a capability call
\* fails for that call only and leaves the layer as it was: the settle wait
\* is never performed and its flag never set on the way to the failure, and
\* the failing step changes no field, buffer, notification or request.
C17_UnavailableNoEffect == [][C17_Steps]_vars

C18_Order ==
    \A t \in Clients :
       /\ (pc[t] \in {"ensure", "send", "ref_request"} \/ Indexing(t)) =>
             has_waited_for_cross_file_references
       /\ pc[t] \in {"send", "ref_request"} => astro_files_indexed
       /\ pc[t] = "ref_request" => Holds(held[t], target[t]) >= 1
       /\ asked[t].method = "references" => asked[t].includeDeclaration

C18_Steps ==
    \A t \in Clients :
       /\ (asked[t].method # "references" /\ asked'[t].method = "references") =>
             /\ pc[t] = "ref_request"
             /\ astro_files_indexed
             /\ asked'[t].to = ts_server
             /\ \A f \in AstroFiles :
                   \/ f \in idxFailed
                   \/ Holds(ts_server, f) >= 1
                   \/ lifecycle = "Stopping"
       /\ pc[t] = "settle" => pc'[t] \in {"settle", "ensure"}
       /\ pc[t] = "ensure" => pc'[t] \in {"ensure", "ix_open", "send", "idle"}
       /\ Indexing(t) => Indexing(t)' \/ pc'[t] = "send"
       /\ pc[t] = "send" => pc'[t] \in {"send", "ref_request", "idle"}

\* C18: with the calls of the threads interleaved, a references request is
\* sent only when an indexing pass has finished: the flag is set and every
\* enumerated file is open on the companion asked, unless its open failed
\* or a stop() is releasing it.  Within one findReferences the steps come as
\* settle wait, ensureIndexed, scope on the target file, then the request,
\* which asks for declarations too.
C18_RequestAfterIndexing == []C18_Order /\ [][C18_Steps]_vars

C18_Witness ==
    /\ indexRuns >= 1
    /\ idxFailed = {}
    /\ \A t \in Clients :
          /\ pc[t] = "await"
          /\ asked[t].method = "references"

\* Thread t is inside a resolveDefinition or renameSymbol call.
Delegated(t) ==
    \/ pc[t] = "request"
    \/ pc[t] = "await" /\ asked[t].method = "delegated"

\* The reference count of f on session g after the step.
HoldsNext(g, f) ==
    IF f \in DOMAIN open_file_buffers'[g] THEN open_file_buffers'[g][f] ELSE 0

C19_During ==
    \A t \in Clients :
       Delegated(t) =>
          /\ held[t] \in Gens
          /\ Holds(held[t], target[t]) >= 1
          /\ unclosed[held[t]][target[t]] = 1

C19_Steps ==
    \A t \in Clients :
       /\ (pc[t] = "idle" /\ pc'[t] = "request") =>
             /\ ts_server # None
             /\ held'[t] = ts_server
             /\ HoldsNext(ts_server, target'[t]) = Holds(ts_server, target'[t]) + 1
             /\ UNCHANGED primary_open_file_buffers
       /\ (pc[t] = "request" /\ pc'[t] = "await") =>
             /\ asked'[t].to = ts_server
             /\ asked'[t].to = held[t]
             /\ UNCHANGED <<open_file_buffers, unclosed, primary_open_file_buffers>>
       /\ (Delegated(t) /\ pc'[t] = "idle") =>
             /\ HoldsNext(held[t], target[t]) = Holds(held[t], target[t]) - 1
             /\ \A g \in Gens, f \in Files :
                   <<g, f>> # <<held[t], target[t]>> => HoldsNext(g, f) = Holds(g, f)
             /\ UNCHANGED primary_open_file_buffers

\* C19: resolveDefinition and renameSymbol take one unit on the target
\* file's buffer on the companion when they begin, send their request to the
\* companion while they hold it, and give the unit back on every way out,
\* reply or failure: the count is back at its value and no other buffer, on
\* the companion or on the primary, has changed.
C19_DelegatedScopedHold == []C19_During /\ [][C19_Steps]_vars

C19_Witness ==
    /\ outcome = "RequestFailed"
    /\ ensureCalls = 0
    /\ opsLeft = 0
    /\ \A t \in Clients : pc[t] = "idle"
    /\ \A g \in Gens, f \in Files : Holds(g, f) = 0
    /\ \E g \in Gens : TsRunning(g)

\* C20: a capability call that runs while stop() runs ends with a result
\* (or the companion's own failure of the request) or with one of the
\* layer's two errors, not started or session unavailable, and with no
\* other error.
C20_DocumentedOutcomes ==
    outcome \in {"none", "ok", "RequestFailed", "NotStarted", "SessionUnavailable"}

\* ------------------------------------------------------------------ C21
\* The companion has been created, its start() has returned and its
\* readiness signal is set.
CompanionReady(g) == g # None /\ tsProc[g] # "none" /\ tsReady[g]

C21_Ready ==
    lifecycle = "Ready" => ts_server_started /\ CompanionReady(ts_server)

\* A step of the indexing loop that sends an open notification to a session.
C21_Steps ==
    \A t \in Clients, g \in Gens, f \in AstroFiles :
       (pc[t] = "ix_open" /\ unclosed'[g][f] > unclosed[g][f]) =>
          ts_server_started /\ CompanionReady(g)

\* C21: in the Ready state the companion exists, has been started and has its
\* readiness signal set; the indexing loop opens files only on a companion
\* that has been started and whose readiness signal is set.
C21_CompanionReadyBeforeIndexing == []C21_Ready /\ [][C21_Steps]_vars

C21_Witness ==
    /\ lifecycle = "Ready"
    /\ Count("companion_timeout", log) = 1
    /\ \E t \in Clients : pc[t] = "ix_promote" /\ held[t] = ts_server

\* ------------------------------------------------------------------ C22
OwnIgnoredNames == {<<"node_modules">>, <<"dist">>, <<".", "astro">>}

\* C22: is_ignored_dirname is true for every name the base policy ignores
\* and for the dependency, build-output and tool-cache directory names, and
\* for any other name it is the base policy's answer.
C22_IgnoredDirname ==
    dir_ignored.done =>
       /\ base_is_ignored_dirname(dir_asked) => dir_ignored.value
       /\ dir_asked \in OwnIgnoredNames => dir_ignored.value
       /\ dir_asked \notin OwnIgnoredNames =>
             dir_ignored.value = base_is_ignored_dirname(dir_asked)

C22_Witness ==
    /\ dir_ignored.done
    /\ dir_asked = <<"dist">>
    /\ ~base_is_ignored_dirname(dir_asked)
    /\ dir_ignored.value

\* ------------------------------------------------------------------ C23
\* The position of the first candidate outside a dependency directory, 0
\* when every candidate is inside one.
FirstOutside(defs) ==
    IF \A i \in 1..Len(defs) : in_node_modules(defs[i]) THEN 0
    ELSE CHOOSE i \in 1..Len(defs) :
            /\ ~in_node_modules(defs[i])
            /\ \A j \in 1..(i - 1) : in_node_modules(defs[j])

ReadyMessages ==
    { <<"S", "e", "r", "v", "e", "r", " ", "R", "e", "a", "d", "y">>,
      <<"I", "n", "i", "t", "i", "a", "l", "i", "z", "e", "d">>,
      <<"a", "l", "r", "e", "a", "d", "y">>,
      <<"R", "E", "A", "D", "Y">> }

C24_Steps ==
    /\ delivered' # delivered =>
          server_ready' = (server_ready \/ delivered'[Len(delivered')] \in ReadyMessages)
    /\ server_ready => server_ready'
    /\ (server_ready' /\ ~server_ready) =>
          delivered' # delivered \/ ctlPc = "prim_wait"

\* C24: a log notification sets the primary's readiness signal exactly when
\* its text contains "ready" or "initialized" in any case, and any other log
\* message leaves the signal as it is; setting a set signal changes nothing,
\* and a set signal is never cleared.
C24_LogReadiness == [][C24_Steps]_vars

C24_Witness ==
    /\ Len(delivered) = 2
    /\ delivered[1] \notin ReadyMessages
    /\ delivered[2] = <<"S", "e", "r", "v", "e", "r", " ", "R", "e", "a", "d", "y">>
    /\ server_ready
    /\ Count("primary_handshake", log) = 0
    /\ lifecycle = "Starting"

\* ------------------------------------------------------------------ C25
\* C25: when no query, ensureIndexed or release is under way, every buffer
\* present in a companion's open-file table has a reference count of at least
\* 1; a close notification that fails during release leaves no buffer with
\* count 0 in the table.
C25_NoZeroCountBuffer ==
    (/\ ctlPc \notin {"cl_dec", "cl_close", "cl_clear"}
     /\ \A t \in Clients : Passive(t)) =>
       \A g \in Gens : \A f \in DOMAIN open_file_buffers[g] :
          open_file_buffers[g][f] >= 1

\* ------------------------------------------------------------------ C26
\* A thread sends the references request in this step.
SendsReferences(t) ==
    asked[t].method # "references" /\ asked'[t].method = "references"

C26_Steps ==
    \A t \in Clients :
       (lifecycle = "Ready" /\ SendsReferences(t)) =>
          /\ indexedOn = ts_server
          /\ \A f \in AstroFiles \ idxFailed :
                /\ Holds(ts_server, f) >= 1
                /\ f \in Range(indexed_astro_file_uris)

\* C26: in every lifetime of the layer, also after a stop() and a second
\* start(), a references request of a Ready layer is sent only after the enumerated files have
\* been opened on the current companion session: the index-built flag and the
\* recorded URI list describe the session the request goes to.
C26_IndexPerLifetime == [][C26_Steps]_vars

\* The same within the first lifetime only.
C26_FirstLifetime == [][starts <= 1 => C26_Steps]_vars

\* ------------------------------------------------------------------ C27
\* C27: when a stop() and the calls of the threads, run concurrently, have
\* all finished, the recorded URI list is empty and no companion buffer
\* carries an index hold: nothing is recorded or promoted after the release
\* has cleared the list.
C27_NothingRecordedAfterRelease ==
    (/\ lifecycle = "Stopped"
     /\ ctlPc = "idle"
     /\ \A t \in Clients : pc[t] = "idle") =>
       /\ indexed_astro_file_uris = <<>>
       /\ \A g \in Gens, f \in AstroFiles : Holds(g, f) = 0

\* ------------------------------------------------------------------ C28
\* With stop() called only after a start(): the stop() that runs, or has run
\* last, follows a completed stop() of the same lifetime.
Restop == starts = 1 /\ stops = 2

C28_Steps ==
    (Restop /\ lifecycle = "Stopping") =>
       /\ unclosed' = unclosed
       /\ tsProc' = tsProc
       /\ open_file_buffers' = open_file_buffers
       /\ ts_server = None /\ ts_server' = None
       /\ indexed_astro_file_uris = <<>> /\ indexed_astro_file_uris' = <<>>
       /\ "companion_stop_error" \notin Range(log')
       /\ ctlOutcome' # "raised"

C28_Done ==
    (Restop /\ lifecycle = "Stopped") =>
       /\ ctlOutcome = "ok"
       /\ ts_server = None
       /\ indexed_astro_file_uris = <<>>

\* C28: a second stop() after a completed stop() sends no close
\* notification, calls stop on no companion session, leaves the recorded URI
\* list empty and the companion reference absent, and returns without
\* raising.
C28_SecondStopNoEffect == []C28_Done /\ [][C28_Steps]_vars

C28_Witness ==
    /\ Restop
    /\ lifecycle = "Stopped"
    /\ tsProc[1] = "stopped"
    /\ indexRuns = 1
    /\ log = <<"release", "companion_stop", "primary_stop">>

====
